---- MODULE Spec2Model ----
(***************************************************************************)
(* Model of the gleam language server (src/src/language_server.rs and      *)
(* src/src/language_server/format.rs): the text-document synchronisation   *)
(* handlers of ServerBackend, the formatting request and the shutdown      *)
(* flag.  Document and VFS (mod document, mod vfs) and the pretty printer  *)
(* (crate::format::pretty) are modelled from their specification.          *)
(***************************************************************************)
EXTENDS Integers, Sequences, FiniteSets, TLC

(***************************************************************************)
(* Bounds of the model.                                                    *)
(***************************************************************************)
MaxLen == 2          \* longest document text (in characters) the client produces
MaxVersion == 2      \* largest client version carried by a didChange
MaxLog == 2          \* most log messages sent to the client in one run
MaxFmtLen == 3       \* longest text handed to / returned by the formatter alone
MaxTasks == 2        \* most handler futures a driver keeps in flight at once

(***************************************************************************)
(* Text.  A text is a sequence of Unicode scalar values; a Rust String     *)
(* stores it as UTF-8, the wire protocol addresses it in UTF-16 units.     *)
(***************************************************************************)
LF == 10                        \* the "\n" that lines() and rfind look for
DocChars == {97, LF}            \* 'a' and the line feed
FmtChars == {97, LF, 128512}    \* and U+1F600: 4 bytes of UTF-8, 2 units of UTF-16
URIs == {"file:///a.gleam"}

SeqsUpTo(S, n) == UNION {[1..k -> S] : k \in 0..n}
DocTexts == SeqsUpTo(DocChars, MaxLen)
FmtTexts == SeqsUpTo(FmtChars, MaxFmtLen)

Utf8Len(c) == IF c < 128 THEN 1 ELSE IF c < 2048 THEN 2 ELSE IF c < 65536 THEN 3 ELSE 4
Utf16Len(c) == IF c < 65536 THEN 1 ELSE 2

\* The length of a text in UTF-8 bytes (str::len) and in UTF-16 units.
Count(t, P(_)) == Cardinality({i \in 1..Len(t) : P(t[i])})
ByteLen(t) ==
    Len(t) + Count(t, LAMBDA c : c >= 128) + Count(t, LAMBDA c : c >= 2048)
           + Count(t, LAMBDA c : c >= 65536)
Utf16Units(t) == Len(t) + Count(t, LAMBDA c : c >= 65536)

Prefix(t, n) == SubSeq(t, 1, n)
Suffix(t, n) == SubSeq(t, n + 1, Len(t))
CountLF(t) == Cardinality({i \in 1..Len(t) : t[i] = LF})

(***************************************************************************)
(* Option<T> is a sequence of length at most one.                          *)
(***************************************************************************)
None == <<>>
Some(x) == <<x>>
IsSome(o) == o # <<>>
Unwrap(o) == o[1]

(***************************************************************************)
(* Document (mod document): a versioned text buffer.                       *)
(***************************************************************************)
NewDocument(text) == [version |-> 0, text |-> text]
Document_version(doc) == doc.version

\* The character offset of `text` that the position (line, character) names,
\* walking from offset i with `line` line feeds and then `character` UTF-16
\* units still to pass; -1 when the position names no character boundary.
RECURSIVE Walk(_, _, _, _)
Walk(text, i, line, character) ==
    IF line = 0 /\ character = 0 THEN i
    ELSE IF i = Len(text) THEN -1
    ELSE IF line > 0
    THEN Walk(text, i + 1, IF text[i + 1] = LF THEN line - 1 ELSE line, character)
    ELSE IF text[i + 1] = LF \/ Utf16Len(text[i + 1]) > character THEN -1
    ELSE Walk(text, i + 1, 0, character - Utf16Len(text[i + 1]))
OffsetOf(text, pos) == Walk(text, 0, pos.line, pos.character)
ValidRange(text, r) ==
    /\ OffsetOf(text, r.start) >= 0
    /\ OffsetOf(text, r.end) >= 0
    /\ OffsetOf(text, r.start) <= OffsetOf(text, r.end)

\* One content change: no range replaces the whole text, a range splices.
apply_content_change(text, change) ==
    IF change.range = None
    THEN change.text
    ELSE LET r == Unwrap(change.range)
         IN  Prefix(text, OffsetOf(text, r.start)) \o change.text
                \o Suffix(text, OffsetOf(text, r.end))

RECURSIVE apply_changes_text(_, _)
apply_changes_text(text, changes) ==
    IF changes = <<>> THEN text
    ELSE apply_changes_text(apply_content_change(text, Head(changes)), Tail(changes))

\* Document::apply_content_changes: the changes in list order; the version is
\* left as it is.
apply_content_changes(doc, changes) ==
    [doc EXCEPT !.text = apply_changes_text(doc.text, changes)]

(***************************************************************************)
(* VFS (mod vfs): the registry URI -> Document.                            *)
(***************************************************************************)
create_document(v, uri, text) == [v EXCEPT ![uri] = Some(NewDocument(text))]
with_document(v, uri, f(_)) == IF IsSome(v[uri]) THEN Some(f(Unwrap(v[uri]))) ELSE None
modify_document(v, uri, f(_)) ==
    IF IsSome(v[uri]) THEN [v EXCEPT ![uri] = Some(f(Unwrap(v[uri])))] ELSE v
evict_document(v, uri) == [v EXCEPT ![uri] = None]
\* The text of the open document, or else what reading the file gave.
get_document_contents(v, uri, disk) ==
    IF IsSome(v[uri]) THEN [ok |-> TRUE, value |-> Unwrap(v[uri]).text] ELSE disk

(***************************************************************************)
(* language_server/format.rs.  A u64 is written as the representative of   *)
(* its residue modulo 2^64 that is nearest to zero, so that 0 - 1 wraps to *)
(* -1 (TLC's integers are narrower than 64 bits).                          *)
(***************************************************************************)
Ok(x) == [ok |-> TRUE, value |-> x]
Err(e) == [ok |-> FALSE, error |-> e]
Position(line, character) == [line |-> line, character |-> character]

\* text.lines().fold(0, |acc, _| acc + 1): a final line feed ends the last
\* line and starts no new one.
line_count(text) ==
    CountLF(text) + (IF text # <<>> /\ text[Len(text)] # LF THEN 1 ELSE 0)

\* text.rfind("\n"): the byte index of the last line feed.
rfind_newline(text) ==
    IF CountLF(text) = 0 THEN None
    ELSE LET k == CHOOSE i \in 1..Len(text) :
                     text[i] = LF /\ \A j \in (i + 1)..Len(text) : text[j] # LF
         IN  Some(ByteLen(Prefix(text, k - 1)))

unwrap_or(o, d) == IF IsSome(o) THEN Unwrap(o) ELSE d

\* get_final_position: `overflow` tells whether line_count - 1 overflowed,
\* which panics in a build with overflow checks and wraps in one without.
get_final_position(text) ==
    LET last_line_index == unwrap_or(rfind_newline(text), 0)
        last_line_cols == ByteLen(text) - last_line_index
    IN  [pos |-> Position(line_count(text) - 1, last_line_cols),
         overflow |-> line_count(text) < 1]

TextEdit(start, end, new_text) ==
    [range |-> [start |-> start, end |-> end], new_text |-> new_text]

\* format(src), given what crate::format::pretty returns for src: the
\* Result it returns, or a panic.
format_without_comparison(src, pretty, overflow_checks) ==
    IF ~pretty.ok THEN [panic |-> FALSE, result |-> Err("Parse error")]
    ELSE IF get_final_position(pretty.value).overflow /\ overflow_checks
    THEN [panic |-> TRUE, result |-> Err("attempt to subtract with overflow")]
    ELSE [panic |-> FALSE,
          result |-> Ok(<<TextEdit(Position(0, 0), get_final_position(pretty.value).pos,
                                   pretty.value)>>)]
format_swallows_parse_failure(src, pretty, overflow_checks) ==
    IF ~pretty.ok THEN [panic |-> FALSE, result |-> Ok(<<>>)]
    ELSE IF src = pretty.value THEN [panic |-> FALSE, result |-> Ok(<<>>)]
    ELSE format_without_comparison(src, pretty, overflow_checks)
format(src, pretty, overflow_checks) ==
    IF ~pretty.ok THEN [panic |-> FALSE, result |-> Err("Parse error")]
    ELSE LET original == src
             formatted == pretty.value
         IN  IF original = formatted THEN [panic |-> FALSE, result |-> Ok(<<>>)]
             ELSE IF get_final_position(formatted).overflow /\ overflow_checks
             THEN [panic |-> TRUE, result |-> Err("attempt to subtract with overflow")]
             ELSE [panic |-> FALSE,
                   result |-> Ok(<<TextEdit(Position(0, 0),
                                            get_final_position(formatted).pos,
                                            formatted)>>)]

(***************************************************************************)
(* State.                                                                  *)
(***************************************************************************)
VARIABLES
    vfs,            \* ServerBackend.vfs: URI -> Option<Document>
    did_shutdown,   \* ServerBackend.did_shutdown, shared with run_server
    log,            \* the log messages sent to the client, in order
    pc,             \* where the handler in flight is suspended, or "idle"
    status,         \* "running", "panicked" or "exited"
    exit_code,      \* Option: what command() returns once the server ended
    reply,          \* Option: the response to the request handled last
    ev,             \* the event dispatched last (the handler's params)
    shadow,         \* history: per URI, what the accepted events add up to
    overflow_checks, \* whether the build panics on integer overflow (debug) or wraps
    flag_hist,      \* history: how often did_shutdown has been read, and whether a
                    \* shutdown request has been handled
    tasks,          \* the handler futures in flight, when the driver keeps several
    running,        \* the future being polled (its index in tasks), or 0
    holders         \* the guards held on the two RwLocks: <<who, lock, mode>>

task_vars == <<tasks, running, holders>>
vars == <<vfs, did_shutdown, log, pc, status, exit_code, reply, ev, shadow, overflow_checks,
          flag_hist, task_vars>>

(***************************************************************************)
(* Inputs: what a client can send.                                         *)
(***************************************************************************)
ClientVersions == {None} \cup {Some(n) : n \in -1..MaxVersion}

\* The position (line, character) of the character offset i of `text`.
LineStart(text, i) ==
    IF \E s \in 1..i : text[s] = LF
    THEN CHOOSE s \in 1..i : text[s] = LF /\ \A k \in (s + 1)..i : text[k] # LF
    ELSE 0
PositionAt(text, i) ==
    [line |-> CountLF(Prefix(text, i)),
     character |-> Utf16Units(SubSeq(text, LineStart(text, i) + 1, i))]
InsertedTexts == {t \in DocTexts : Len(t) <= 1}
\* The edits a client can make to `text` within the bounds: a full
\* replacement, or a splice between two character offsets, each with the
\* content change that encodes it on the wire, the number of characters it
\* removes and the text it leaves.
Edits(text) ==
    {[change |-> [range |-> None, text |-> t], removes |-> Len(text), result |-> t] :
        t \in InsertedTexts}
    \cup
    {ed \in {[change |-> [range |-> Some([start |-> PositionAt(text, se[1]),
                                          end |-> PositionAt(text, se[2])]),
                          text |-> se[3]],
              removes |-> se[2] - se[1],
              result |-> Prefix(text, se[1]) \o se[3] \o Suffix(text, se[2])] :
                se \in {x \in (0..Len(text)) \X (0..Len(text)) \X InsertedTexts : x[1] <= x[2]}} :
        Len(ed.result) <= MaxLen}
\* Typing or deleting one character.
Keystroke(ed) == ed.change.range # None /\ ed.removes + Len(ed.change.text) = 1
\* The contentChanges lists a client may send for a document holding `text`:
\* no change, any one edit, or a full replacement or keystroke followed by a
\* keystroke.
ChangeListsOf ==
    [text \in DocTexts |->
        {<<>>} \cup {<<a.change>> : a \in Edits(text)}
               \cup UNION {{<<a.change, b.change>> : b \in {x \in Edits(a.result) : Keystroke(x)}} :
                             a \in {x \in Edits(text) : x.change.range = None \/ Keystroke(x)}}]
\* A list the client may send whatever the server holds.
AnyTimeLists == {<<>>, <<[range |-> None, text |-> <<>>]>>, <<[range |-> None, text |-> <<LF>>]>>}
\* The lists offered to did_change: every well-formed list when the client's
\* version is the server's, a few full replacements otherwise.
ContentChangesFor(v, uri, version) ==
    IF IsSome(v[uri]) /\ version = Some(Unwrap(v[uri]).version)
    THEN ChangeListsOf[Unwrap(v[uri]).text]
    ELSE AnyTimeLists

(***************************************************************************)
(* The handlers of impl LanguageServer for ServerBackend.                  *)
(***************************************************************************)
Message(typ, what) == [typ |-> typ, what |-> what]

\* did_open: the whole handler.
did_open_keeps_existing(v, uri, text) ==
    IF IsSome(v[uri]) THEN v ELSE create_document(v, uri, text)
did_open(v, uri, text) == create_document(v, uri, text)

\* did_close: the whole handler.
did_close_forgets_to_evict(v, uri) == v
did_close(v, uri) == evict_document(v, uri)

\* doc_version.cmp(&version)
cmp_at_most_is_equal(a, b) == IF a <= b THEN "Equal" ELSE "Greater"
cmp(a, b) == IF a = b THEN "Equal" ELSE IF a < b THEN "Less" ELSE "Greater"

\* The arms of did_change, each up to its first suspension point: the
\* registry it leaves, the log message it sends (if any) and the await it is
\* suspended at ("idle" when it has returned).
did_change_unopened_creates(v, uri) ==
    [vfs |-> create_document(v, uri, <<>>),
     msg |-> Some(Message("Warning", "unopened document")), at |-> "await_warning"]
did_change_unopened(v, uri) ==
    [vfs |-> v, msg |-> Some(Message("Warning", "unopened document")),
     at |-> "await_warning"]

did_change_version_none(v, uri) ==
    [vfs |-> v, msg |-> Some(Message("Error", "version null")),
     at |-> "await_error_null"]

did_change_equal(v, uri, changes) ==
    [vfs |-> modify_document(v, uri, LAMBDA doc : apply_content_changes(doc, changes)),
     msg |-> None, at |-> "idle"]

did_change_less_skips(v, uri) ==
    [vfs |-> v, msg |-> Some(Message("Info", "skipping didChange")), at |-> "await_info"]
did_change_less(v, uri) ==
    [vfs |-> v, msg |-> Some(Message("Error", "synchronization failed")),
     at |-> "await_error_sync"]

did_change_greater_is_fatal(v, uri) ==
    [vfs |-> v, msg |-> Some(Message("Error", "synchronization failed")),
     at |-> "await_error_sync"]
did_change_greater(v, uri) ==
    [vfs |-> v, msg |-> Some(Message("Info", "skipping didChange")), at |-> "await_info"]

\* did_change from the match on the version read to its first suspension
\* point, and did_change from its start.
did_change_match(v, uri, doc_version, version, changes) ==
    IF doc_version = None THEN did_change_unopened(v, uri)
    ELSE IF version = None THEN did_change_version_none(v, uri)
    ELSE CASE cmp(Unwrap(doc_version), Unwrap(version)) = "Equal" ->
                did_change_equal(v, uri, changes)
           [] cmp(Unwrap(doc_version), Unwrap(version)) = "Less" ->
                did_change_less(v, uri)
           [] cmp(Unwrap(doc_version), Unwrap(version)) = "Greater" ->
                did_change_greater(v, uri)
did_change(v, uri, version, changes) ==
    did_change_match(v, uri, with_document(v, uri, Document_version), version, changes)

\* What follows each await of did_change: panic!(error_message) or the return.
after_await_stale_is_fatal(at) == IF at = "await_warning" THEN "return" ELSE "panic"
after_await(at) == IF at \in {"await_error_null", "await_error_sync"} THEN "panic" ELSE "return"

\* formatting: the response, or a panic.  `disk` is what the file system
\* would give for the document's file, `pretty` what the pretty printer gives
\* for the text fetched.
formatting(v, uri, disk, pretty, checks) ==
    LET doc_contents == get_document_contents(v, uri, disk) IN
    IF ~doc_contents.ok
    THEN [panic |-> FALSE,
          result |-> Err([code |-> "InternalError", message |-> doc_contents.error])]
    ELSE LET r == format(doc_contents.value, pretty, checks) IN
         IF r.panic THEN r
         ELSE IF r.result.ok
         THEN [panic |-> FALSE, result |-> Ok(Some(r.result.value))]
         ELSE [panic |-> FALSE,
               result |-> Err([code |-> "ParseError", message |-> r.result.error])]

\* std::sync::RwLock: a guard is <<who, lock, mode>>.  try_write succeeds when
\* no guard is held on the lock, a read is admitted when no write guard is.
Guards(h, lock) == {g \in h : g[2] = lock}
try_write(h, lock) == Guards(h, lock) = {}
read_admitted(h, lock) == \A g \in Guards(h, lock) : g[3] = "read"

\* initialize: the capabilities advertised.
initialize == Ok([document_formatting_provider |-> Some(TRUE)])

\* shutdown: did_shutdown.try_write() succeeds when nobody holds the lock.
shutdown_toggles(flag, lock_free) ==
    IF lock_free THEN [did_shutdown |-> ~flag, result |-> Ok("()")]
    ELSE [did_shutdown |-> flag,
          result |-> Err([code |-> "InternalError",
                          message |-> "Failed to lock did_shutdown_ref for writing"])]
shutdown_ignores_contention(flag, lock_free) == [did_shutdown |-> TRUE, result |-> Ok("()")]
shutdown(flag, lock_free) ==
    IF lock_free
    THEN [did_shutdown |-> TRUE, result |-> Ok("()")]
    ELSE [did_shutdown |-> flag,
          result |-> Err([code |-> "InternalError",
                          message |-> "Failed to lock did_shutdown_ref for writing"])]

\* run_server's result once serve() has returned (the lock is not poisoned:
\* no handler panics while holding it), and command()'s exit code for it.
run_server(flag) == flag
command_swaps_codes(flag) == IF run_server(flag) THEN 1 ELSE 0
command(flag) == IF run_server(flag) THEN 0 ELSE 1

(***************************************************************************)
(* History: what the events accepted so far add up to, kept beside the     *)
(* registry and never read by a handler.  An event is accepted as the      *)
(* protocol's table says: an open always; a change when the document is    *)
(* open, its version is an integer and equals the server's.                *)
(***************************************************************************)
RECURSIVE InOrder(_, _)
InOrder(text, changes) ==
    IF changes = <<>> THEN text
    ELSE apply_content_change(InOrder(text, SubSeq(changes, 1, Len(changes) - 1)),
                              changes[Len(changes)])
Accepted(v, uri, version) ==
    /\ IsSome(v[uri])
    /\ IsSome(version)
    /\ Unwrap(v[uri]).version = Unwrap(version)
ShadowOpen(sh, uri, text) == [sh EXCEPT ![uri] = Some([text |-> text, last |-> None])]
ShadowChange(sh, v, uri, version, changes) ==
    IF Accepted(v, uri, version)
    THEN [sh EXCEPT ![uri] = Some([text |-> InOrder(Unwrap(sh[uri]).text, changes),
                                   last |-> version])]
    ELSE sh
ShadowClose(sh, uri) == [sh EXCEPT ![uri] = None]

Event(kind, uri, version, text) ==
    [kind |-> kind, uri |-> uri, version |-> version, text |-> text,
     disk |-> None, pretty |-> None]
FormatEvent(kind, uri, src, disk, pretty) ==
    [kind |-> kind, uri |-> uri, version |-> None, text |-> src,
     disk |-> disk, pretty |-> Some(pretty)]
NoUri == ""
TaskIds == 1..MaxTasks

(***************************************************************************)
(* Actions.                                                                *)
(***************************************************************************)
Init ==
    /\ vfs = [u \in URIs |-> None]
    /\ did_shutdown = FALSE
    /\ log = <<>>
    /\ pc = "idle"
    /\ status = "running"
    /\ exit_code = None
    /\ reply = None
    /\ ev = Event("start", NoUri, None, <<>>)
    /\ shadow = [u \in URIs |-> None]
    /\ overflow_checks \in BOOLEAN
    /\ flag_hist = [reads |-> 0, requests |-> FALSE]
    /\ tasks = [t \in TaskIds |-> None]
    /\ running = 0
    /\ holders = {}

\* The driver hands the next message to its handler only when no handler is
\* in flight and the server is alive.
Ready_while_suspended == status = "running"
Ready == status = "running" /\ pc = "idle"

DidOpen(uri, text) ==
    /\ Ready
    /\ vfs' = did_open(vfs, uri, text)
    /\ ev' = Event("open", uri, None, text)
    /\ shadow' = ShadowOpen(shadow, uri, text)
    /\ reply' = None
    /\ UNCHANGED <<did_shutdown, log, pc, status, exit_code, overflow_checks, flag_hist, task_vars>>

DidChange(uri, version, changes) ==
    /\ Ready
    /\ \E r \in {did_change(vfs, uri, version, changes)} :
        /\ r.msg # None => Len(log) < MaxLog
        /\ vfs' = r.vfs
        /\ log' = IF r.msg = None THEN log ELSE Append(log, Unwrap(r.msg))
        /\ pc' = r.at
    /\ ev' = Event("change", uri, version, <<>>)
    /\ shadow' = ShadowChange(shadow, vfs, uri, version, changes)
    /\ reply' = None
    /\ UNCHANGED <<did_shutdown, status, exit_code, overflow_checks, flag_hist, task_vars>>

\* The await on client.log_message completes and did_change runs to its end.
DidChangeResume ==
    /\ status = "running"
    /\ pc # "idle"
    /\ pc' = "idle"
    /\ status' = IF after_await(pc) = "panic" THEN "panicked" ELSE status
    /\ UNCHANGED <<vfs, did_shutdown, log, exit_code, reply, ev, shadow, overflow_checks, flag_hist, task_vars>>

DidClose(uri) ==
    /\ Ready
    /\ vfs' = did_close(vfs, uri)
    /\ ev' = Event("close", uri, None, <<>>)
    /\ shadow' = ShadowClose(shadow, uri)
    /\ reply' = None
    /\ UNCHANGED <<did_shutdown, log, pc, status, exit_code, overflow_checks, flag_hist, task_vars>>

\* What the file system and the pretty printer may answer (they are outside
\* the server).  For a document that is open the file holds a text other than
\* the registry's: the edits not saved yet.
DiskReads == {Err("NotFound")} \cup {Ok(t) : t \in InsertedTexts}
StaleFile(text) == CHOOSE t \in InsertedTexts : t # text
DiskReadsFor(v, uri) ==
    IF IsSome(v[uri]) THEN {Some(Ok(StaleFile(Unwrap(v[uri]).text)))}
    ELSE {Some(d) : d \in DiskReads}
PrettyResults(texts) == {Err("syntax error")} \cup {Ok(t) : t \in texts}

Formatting(uri, disk, pretty) ==
    /\ Ready
    /\ \E r \in {formatting(vfs, uri, unwrap_or(disk, Err("not read")), pretty, overflow_checks)} :
        /\ status' = IF r.panic THEN "panicked" ELSE status
        /\ reply' = IF r.panic THEN None ELSE Some(r.result)
    /\ ev' = FormatEvent("format", uri,
                          LET c == get_document_contents(vfs, uri, unwrap_or(disk, Err("not read")))
                          IN  IF c.ok THEN c.value ELSE <<>>,
                          disk, pretty)
    /\ UNCHANGED <<vfs, did_shutdown, log, pc, exit_code, shadow, overflow_checks, flag_hist, task_vars>>

Initialize ==
    /\ Ready
    /\ reply' = Some(initialize)
    /\ ev' = Event("initialize", NoUri, None, <<>>)
    /\ UNCHANGED <<vfs, did_shutdown, log, pc, status, exit_code, shadow, overflow_checks, flag_hist, task_vars>>

\* The guard is dropped before the handler returns.  (Under Spec no guard is
\* ever held when shutdown runs: handlers run one at a time and run_server
\* reads the flag only after serve() returned.)
Shutdown ==
    /\ Ready
    /\ \E r \in {shutdown(did_shutdown, try_write(holders, "did_shutdown"))} :
        /\ did_shutdown' = r.did_shutdown
        /\ reply' = Some(r.result)
    /\ ev' = Event("shutdown", NoUri, None, <<>>)
    /\ flag_hist' = [flag_hist EXCEPT !.requests = TRUE]
    /\ UNCHANGED <<vfs, log, pc, status, exit_code, shadow, overflow_checks, task_vars>>

\* The input stream closes, serve() returns and command() picks the exit code.
StreamClosed ==
    /\ Ready
    /\ read_admitted(holders, "did_shutdown")
    /\ status' = "exited"
    /\ exit_code' = Some(command(did_shutdown))
    /\ flag_hist' = [flag_hist EXCEPT !.reads = @ + 1]
    /\ UNCHANGED <<vfs, did_shutdown, log, pc, reply, ev, shadow, overflow_checks, task_vars>>

Next ==
    \/ \E uri \in URIs, text \in DocTexts : DidOpen(uri, text)
    \/ \E uri \in URIs, version \in ClientVersions :
          \E changes \in ContentChangesFor(vfs, uri, version) : DidChange(uri, version, changes)
    \/ DidChangeResume
    \/ \E uri \in URIs : DidClose(uri)
    \/ \E uri \in URIs : \E disk \in DiskReadsFor(vfs, uri), pretty \in PrettyResults(InsertedTexts) :
          Formatting(uri, disk, pretty)
    \/ Initialize
    \/ Shutdown
    \/ StreamClosed

Spec == Init /\ [][Next]_vars

(***************************************************************************)
(* format() on its own: every text within the bounds as the source, every  *)
(* answer of the pretty printer, and a second request for the text a first *)
(* request's edit leaves (the pretty printer is idempotent: it gives its   *)
(* own output back unchanged).                                            *)
(***************************************************************************)
FormatUri == CHOOSE u \in URIs : TRUE
FormatInit ==
    /\ vfs = [u \in URIs |-> None]
    /\ did_shutdown = FALSE
    /\ log = <<>>
    /\ pc = "idle"
    /\ status = "running"
    /\ exit_code = None
    /\ reply = None
    /\ shadow = [u \in URIs |-> None]
    /\ overflow_checks \in BOOLEAN
    /\ flag_hist = [reads |-> 0, requests |-> FALSE]
    /\ tasks = [t \in TaskIds |-> None]
    /\ running = 0
    /\ holders = {}
    /\ \E src \in FmtTexts, pretty \in PrettyResults(FmtTexts) :
          ev = FormatEvent("format pending", FormatUri, src, Some(Ok(src)), pretty)

\* The formatting request for a file that is not open and holds ev.text.
FormatCall ==
    /\ status = "running"
    /\ ev.kind = "format pending"
    /\ \E r \in {formatting(vfs, ev.uri, Unwrap(ev.disk), Unwrap(ev.pretty), overflow_checks)} :
        /\ status' = IF r.panic THEN "panicked" ELSE status
        /\ reply' = IF r.panic THEN None ELSE Some(r.result)
    /\ ev' = [ev EXCEPT !.kind = "format"]
    /\ UNCHANGED <<vfs, did_shutdown, log, pc, exit_code, shadow, overflow_checks, flag_hist, task_vars>>

\* The client applied the edit of the first answer, saved the file and asks
\* again.
FormatAgain ==
    /\ status = "running"
    /\ ev.kind = "format"
    /\ IsSome(reply) /\ Unwrap(reply).ok /\ Unwrap(Unwrap(reply).value) # <<>>
    /\ \E formatted \in {Unwrap(Unwrap(reply).value)[1].new_text} :
        /\ ev' = FormatEvent("format again", ev.uri, formatted, Some(Ok(formatted)), Ok(formatted))
        /\ \E r \in {formatting(vfs, ev.uri, Ok(formatted), Ok(formatted), overflow_checks)} :
            /\ status' = IF r.panic THEN "panicked" ELSE status
            /\ reply' = IF r.panic THEN None ELSE Some(r.result)
    /\ UNCHANGED <<vfs, did_shutdown, log, pc, exit_code, shadow, overflow_checks, flag_hist, task_vars>>

FormatNext == FormatCall \/ FormatAgain

FormatSpec == FormatInit /\ [][FormatNext]_vars

(***************************************************************************)
(* shutdown() for every state of the did_shutdown lock.  The flag is an    *)
(* Arc<RwLock<bool>> of which run_server keeps a clone; here that other    *)
(* owner may hold a read or a write guard at any time, and the registry    *)
(* holds any document.                                                     *)
(***************************************************************************)
OtherOwner == 0
FlagGuards == {{}, {<<OtherOwner, "did_shutdown", "read">>},
                   {<<OtherOwner, "did_shutdown", "write">>}}
ShutdownInit ==
    /\ vfs \in [URIs -> {None} \cup {Some(NewDocument(t)) : t \in DocTexts}]
    /\ did_shutdown = FALSE
    /\ log = <<>>
    /\ pc = "idle"
    /\ status = "running"
    /\ exit_code = None
    /\ reply = None
    /\ ev = Event("start", NoUri, None, <<>>)
    /\ shadow = [u \in URIs |-> IF vfs[u] = None THEN None
                                 ELSE Some([text |-> Unwrap(vfs[u]).text, last |-> None])]
    /\ overflow_checks \in BOOLEAN
    /\ flag_hist = [reads |-> 0, requests |-> FALSE]
    /\ tasks = [t \in TaskIds |-> None]
    /\ running = 0
    /\ holders \in FlagGuards

OtherOwnerLocks(mode) ==
    /\ status = "running"
    /\ Guards(holders, "did_shutdown") = {}
    /\ holders' = holders \cup {<<OtherOwner, "did_shutdown", mode>>}
    /\ UNCHANGED <<vfs, did_shutdown, log, pc, status, exit_code, reply, ev, shadow,
                   overflow_checks, flag_hist, tasks, running>>

OtherOwnerUnlocks ==
    /\ status = "running"
    /\ Guards(holders, "did_shutdown") # {}
    /\ holders' = holders \ Guards(holders, "did_shutdown")
    /\ UNCHANGED <<vfs, did_shutdown, log, pc, status, exit_code, reply, ev, shadow,
                   overflow_checks, flag_hist, tasks, running>>

ShutdownNext ==
    \/ Shutdown
    \/ \E mode \in {"read", "write"} : OtherOwnerLocks(mode)
    \/ OtherOwnerUnlocks
    \/ \E uri \in URIs : DidClose(uri)
    \/ StreamClosed

ShutdownSpec == ShutdownInit /\ [][ShutdownNext]_vars

(***************************************************************************)
(* The handlers as futures.  An async fn of ServerBackend runs, when       *)
(* polled, from where it stands to its next .await or to its end, and      *)
(* nothing else runs on the loop's thread meanwhile.  Spec lets the driver *)
(* await each handler before it reads the next message; here the driver    *)
(* may keep up to MaxTasks handlers in flight and poll them in any order,  *)
(* the most a cooperative loop can do, and the guards on the two RwLocks   *)
(* are taken and dropped in steps of their own.                            *)
(***************************************************************************)
AwaitPoints == {"await_warning", "await_error_null", "await_error_sync", "await_info"}
\* The points at which a handler gives the thread back: its .awaits.
suspends_before_modify(at) == at \in AwaitPoints \cup {"compared"}
suspends_with_flag_guard(at) == at \in AwaitPoints \cup {"flag_locked"}
is_suspension_point(at) == at \in AwaitPoints

Task(kind, uri, version, changes, text, disk, pretty) ==
    [kind |-> kind, uri |-> uri, version |-> version, changes |-> changes, text |-> text,
     disk |-> disk, pretty |-> pretty, at |-> "start", doc_version |-> None, seen |-> None]
\* What a handler suspended on a log message still needs: where it stands.
Awaiting(task, at) ==
    [Task(task.kind, task.uri, None, <<>>, <<>>, None, None) EXCEPT !.at = at]

TaskTexts == {<<>>, <<97>>}
TaskChanges == {<<>>, <<[range |-> None, text |-> <<97>>]>>}
NewTasks(v) ==
    {Task("open", u, None, <<>>, text, None, None) : u \in URIs, text \in TaskTexts}
    \cup {Task("change", u, ver, ch, <<>>, None, None) :
            u \in URIs, ver \in ClientVersions, ch \in TaskChanges}
    \cup {Task("close", u, None, <<>>, <<>>, None, None) : u \in URIs}
    \cup {Task("format", u, None, <<>>, <<>>, disk, Some(pretty)) :
            u \in URIs, disk \in {Some(Err("NotFound")), Some(Ok(<<>>))},
            pretty \in {Err("syntax error"), Ok(<<97>>)}}
    \cup {Task("shutdown", NoUri, None, <<>>, <<>>, None, None)}

TaskInit == Init

\* A step of the handler being polled leaves it at `at`: it keeps the thread
\* unless that is a suspension point.
Moves(t, task) ==
    /\ tasks' = [tasks EXCEPT ![t] = task]
    /\ running' = IF is_suspension_point(task.at) THEN 0 ELSE t
Completes(t) ==
    /\ tasks' = [tasks EXCEPT ![t] = None]
    /\ running' = 0
Locks(t, lock, mode) == holders' = holders \cup {<<t, lock, mode>>}
Unlocks(t, lock) == holders' = holders \ {g \in holders : g[1] = t /\ g[2] = lock}
Polled(t, kind, at) == running = t /\ tasks[t] # None /\ tasks[t].kind = kind /\ tasks[t].at = at

\* The driver reads a message and polls its handler for the first time.
Dispatch(t, task) ==
    /\ status = "running" /\ running = 0
    /\ tasks[t] = None /\ \A u \in 1..(t - 1) : tasks[u] # None
    /\ task.kind = "change" => Len(log) < MaxLog
    /\ tasks' = [tasks EXCEPT ![t] = task]
    /\ running' = t
    /\ UNCHANGED <<vfs, did_shutdown, log, pc, status, exit_code, reply, ev, shadow,
                   overflow_checks, flag_hist, holders>>

\* The driver polls a handler whose log message has been sent: did_change
\* runs from the .await to its end.  (A handler suspended elsewhere goes on
\* from where it stands.)
Resume(t) ==
    /\ status = "running" /\ running = 0
    /\ tasks[t] # None
    /\ IF tasks[t].at \in AwaitPoints
       THEN /\ Completes(t)
            /\ status' = IF after_await(tasks[t].at) = "panic" THEN "panicked" ELSE status
       ELSE running' = t /\ UNCHANGED <<tasks, status>>
    /\ UNCHANGED <<vfs, did_shutdown, log, pc, exit_code, reply, ev, shadow,
                   overflow_checks, flag_hist, holders>>

\* did_change: the read guard of with_document, taken and dropped inside
\* the call; the match; then an await on a log message or, in the Equal arm,
\* the write guard of modify_document, taken and dropped inside the call.
ChangeLocksForRead(t) ==
    /\ Polled(t, "change", "start")
    /\ read_admitted(holders, "vfs")
    /\ Locks(t, "vfs", "read")
    /\ Moves(t, [tasks[t] EXCEPT !.at = "reading"])
    /\ UNCHANGED <<vfs, did_shutdown, log, pc, status, exit_code, reply, ev, shadow,
                   overflow_checks, flag_hist>>

ChangeReadsVersion(t) ==
    /\ Polled(t, "change", "reading")
    /\ Moves(t, [tasks[t] EXCEPT !.at = "compared",
                                 !.doc_version = with_document(vfs, tasks[t].uri, Document_version),
                                 !.seen = vfs[tasks[t].uri]])
    /\ Unlocks(t, "vfs")
    /\ UNCHANGED <<vfs, did_shutdown, log, pc, status, exit_code, reply, ev, shadow,
                   overflow_checks, flag_hist>>

ChangeMatches(t) ==
    /\ Polled(t, "change", "compared")
    /\ \E r \in {did_change_match(vfs, tasks[t].uri, tasks[t].doc_version,
                                  tasks[t].version, tasks[t].changes)} :
          IF r.msg = None
          THEN /\ Guards(holders, "vfs") = {}
               /\ Locks(t, "vfs", "write")
               /\ Moves(t, [tasks[t] EXCEPT !.at = "modifying"])
               /\ UNCHANGED <<vfs, log>>
          ELSE /\ Len(log) < MaxLog
               /\ log' = Append(log, Unwrap(r.msg))
               /\ vfs' = r.vfs
               /\ Moves(t, Awaiting(tasks[t], r.at))
               /\ UNCHANGED holders
    /\ UNCHANGED <<did_shutdown, pc, status, exit_code, reply, ev, shadow,
                   overflow_checks, flag_hist>>

ChangeModifies(t) ==
    /\ Polled(t, "change", "modifying")
    /\ vfs' = did_change_equal(vfs, tasks[t].uri, tasks[t].changes).vfs
    /\ Unlocks(t, "vfs")
    /\ Completes(t)
    /\ UNCHANGED <<did_shutdown, log, pc, status, exit_code, reply, ev, shadow,
                   overflow_checks, flag_hist>>

\* did_open and did_close: the write guard of create_document and of
\* evict_document.
OpenOrCloseLocks(t) ==
    /\ Polled(t, "open", "start") \/ Polled(t, "close", "start")
    /\ Guards(holders, "vfs") = {}
    /\ Locks(t, "vfs", "write")
    /\ Moves(t, [tasks[t] EXCEPT !.at = "writing"])
    /\ UNCHANGED <<vfs, did_shutdown, log, pc, status, exit_code, reply, ev, shadow,
                   overflow_checks, flag_hist>>

OpenCreates(t) ==
    /\ Polled(t, "open", "writing")
    /\ vfs' = did_open(vfs, tasks[t].uri, tasks[t].text)
    /\ Unlocks(t, "vfs")
    /\ Completes(t)
    /\ UNCHANGED <<did_shutdown, log, pc, status, exit_code, reply, ev, shadow,
                   overflow_checks, flag_hist>>

CloseEvicts(t) ==
    /\ Polled(t, "close", "writing")
    /\ vfs' = did_close(vfs, tasks[t].uri)
    /\ Unlocks(t, "vfs")
    /\ Completes(t)
    /\ UNCHANGED <<did_shutdown, log, pc, status, exit_code, reply, ev, shadow,
                   overflow_checks, flag_hist>>

\* formatting: the read guard of get_document_contents; format runs after
\* the guard is dropped and the handler answers without an await.
FormatLocks(t) ==
    /\ Polled(t, "format", "start")
    /\ read_admitted(holders, "vfs")
    /\ Locks(t, "vfs", "read")
    /\ Moves(t, [tasks[t] EXCEPT !.at = "fetching"])
    /\ UNCHANGED <<vfs, did_shutdown, log, pc, status, exit_code, reply, ev, shadow,
                   overflow_checks, flag_hist>>

FormatAnswers(t) ==
    /\ Polled(t, "format", "fetching")
    /\ \E r \in {formatting(vfs, tasks[t].uri, Unwrap(tasks[t].disk), Unwrap(tasks[t].pretty),
                            overflow_checks)} :
        /\ status' = IF r.panic THEN "panicked" ELSE status
        /\ reply' = IF r.panic THEN None ELSE Some(r.result)
    /\ Unlocks(t, "vfs")
    /\ Completes(t)
    /\ UNCHANGED <<vfs, did_shutdown, log, pc, exit_code, ev, shadow, overflow_checks, flag_hist>>

\* shutdown: try_write; with the guard, the assignment, and the guard dropped
\* at the end of the if let.
ShutdownTries(t) ==
    /\ Polled(t, "shutdown", "start")
    /\ IF try_write(holders, "did_shutdown")
       THEN /\ Locks(t, "did_shutdown", "write")
            /\ Moves(t, [tasks[t] EXCEPT !.at = "flag_locked"])
            /\ UNCHANGED <<reply, flag_hist>>
       ELSE /\ reply' = Some(shutdown(did_shutdown, FALSE).result)
            /\ flag_hist' = [flag_hist EXCEPT !.requests = TRUE]
            /\ Completes(t)
            /\ UNCHANGED holders
    /\ UNCHANGED <<vfs, did_shutdown, log, pc, status, exit_code, ev, shadow, overflow_checks>>

ShutdownSets(t) ==
    /\ Polled(t, "shutdown", "flag_locked")
    /\ \E r \in {shutdown(did_shutdown, TRUE)} :
        /\ did_shutdown' = r.did_shutdown
        /\ reply' = Some(r.result)
    /\ flag_hist' = [flag_hist EXCEPT !.requests = TRUE]
    /\ Unlocks(t, "did_shutdown")
    /\ Completes(t)
    /\ UNCHANGED <<vfs, log, pc, status, exit_code, ev, shadow, overflow_checks>>

TaskNext ==
    \E t \in TaskIds :
        \/ \E task \in NewTasks(vfs) : Dispatch(t, task)
        \/ Resume(t)
        \/ ChangeLocksForRead(t)
        \/ ChangeReadsVersion(t)
        \/ ChangeMatches(t)
        \/ ChangeModifies(t)
        \/ OpenOrCloseLocks(t)
        \/ OpenCreates(t)
        \/ CloseEvicts(t)
        \/ FormatLocks(t)
        \/ FormatAnswers(t)
        \/ ShutdownTries(t)
        \/ ShutdownSets(t)

TaskSpec == TaskInit /\ [][TaskNext]_vars

(***************************************************************************)
(* Properties.                                                             *)
(***************************************************************************)
IsOpen(u) == IsSome(vfs[u])
Doc(u) == Unwrap(vfs[u])
LastLog == log[Len(log)]
\* The step hands a `kind` event to its handler: a step from a state in
\* which the driver is ready, after which the event is the one dispatched
\* last and the server has not exited.
Dispatches(kind) == Ready /\ ev'.kind = kind /\ status' # "exited"
\* The step hands the handler a change with an integer version for an open
\* document.
DispatchesVersionedChange ==
    Dispatches("change") /\ IsOpen(ev'.uri) /\ IsSome(ev'.version)

\* C1: whenever a URI is open, its Document's version is the client version
\* of the change accepted last since it was opened (if any was), and its text
\* is what the accepted edit lists, applied in order to the opened text, give.
C1_VersionAndTextFollowAccepted ==
    \A u \in URIs :
        IsOpen(u) =>
            /\ IsSome(shadow[u])
            /\ Doc(u).text = Unwrap(shadow[u]).text
            /\ IsSome(Unwrap(shadow[u]).last) => Doc(u).version = Unwrap(Unwrap(shadow[u]).last)
\* C1 witness: an open document that accepted a change and no longer holds
\* the text it was opened or last left empty with.
C1_Witness ==
    \E u \in URIs :
        /\ IsOpen(u) /\ ev.kind = "change" /\ pc = "idle"
        /\ IsSome(shadow[u]) /\ IsSome(Unwrap(shadow[u]).last)
        /\ Doc(u).text = <<LF, 97>>

\* C2: once an open document at version v has accepted a change carrying
\* client version v, its version is v + 1.
C2_AcceptedChangeAdvancesVersion ==
    \A u \in URIs :
        (IsOpen(u) /\ IsSome(shadow[u]) /\ IsSome(Unwrap(shadow[u]).last))
            => Doc(u).version = Unwrap(Unwrap(shadow[u]).last) + 1

\* C3: a change for an open document whose client version is greater than
\* the server's leaves the registry as it is, sends one Error log message and
\* suspends on it; from that await the only step is the panic, which leaves
\* the registry as it is and finds the Error message already sent.
C3_NewerClientVersionIsFatal ==
    [][/\ (DispatchesVersionedChange /\ Unwrap(ev'.version) > Doc(ev'.uri).version) =>
            /\ vfs' = vfs
            /\ log' = Append(log, Message("Error", "synchronization failed"))
            /\ pc' = "await_error_sync"
            /\ status' = "running"
       /\ pc = "await_error_sync" =>
            /\ status' = "panicked"
            /\ vfs' = vfs /\ log' = log
            /\ LastLog.typ = "Error"]_vars
\* C3 witness: the server at version 0 was sent version 2 and has panicked.
C3_Witness ==
    /\ status = "panicked"
    /\ ev.kind = "change" /\ ev.version = Some(2)
    /\ IsOpen(ev.uri) /\ Doc(ev.uri).version = 0
    /\ LastLog = Message("Error", "synchronization failed")

\* C4: a change for an open document whose client version is less than the
\* server's leaves the registry as it is, sends one Info log message and
\* suspends on it; from that await the handler returns, the registry is as it
\* was and the server is running and ready for the next event.
C4_OlderClientVersionIsSkipped ==
    [][/\ (DispatchesVersionedChange /\ Unwrap(ev'.version) < Doc(ev'.uri).version) =>
            /\ vfs' = vfs
            /\ log' = Append(log, Message("Info", "skipping didChange"))
            /\ pc' = "await_info"
            /\ status' = "running"
       /\ pc = "await_info" =>
            /\ status' = "running" /\ pc' = "idle"
            /\ vfs' = vfs /\ log' = log]_vars
\* C4 witness: the same stale change was skipped twice and the server is
\* ready, the document still at its version.
C4_Witness ==
    /\ Ready
    /\ ev.kind = "change" /\ ev.version = Some(-1)
    /\ IsOpen(ev.uri) /\ Doc(ev.uri).version = 0 /\ Doc(ev.uri).text = <<97>>
    /\ log = <<Message("Info", "skipping didChange"), Message("Info", "skipping didChange")>>

\* C5: a change for a URI that is not open, whatever its version, leaves the
\* registry as it is (the URI stays closed), sends one Warning log message
\* and suspends on it; from that await the handler returns and the server is
\* running and ready.
C5_ChangeOfUnopenedOnlyWarns ==
    [][/\ (Dispatches("change") /\ ~IsOpen(ev'.uri)) =>
            /\ vfs' = vfs
            /\ log' = Append(log, Message("Warning", "unopened document"))
            /\ pc' = "await_warning"
            /\ status' = "running"
       /\ pc = "await_warning" =>
            /\ status' = "running" /\ pc' = "idle"
            /\ vfs' = vfs /\ log' = log]_vars
\* C5 witness: changes with a null and with an integer version were sent for
\* the closed URI, which is still closed, and the server is ready.
C5_Witness ==
    /\ Ready
    /\ ev.kind = "change" /\ ev.version = None
    /\ ~IsOpen(ev.uri)
    /\ log = <<Message("Warning", "unopened document"), Message("Warning", "unopened document")>>

\* C6: a change with a null version for an open document leaves the registry
\* as it is, sends one Error log message and suspends on it, and from that
\* await the only step is the panic; and whenever the server panics, the
\* message sent last to the client is an Error message.
C6_NullVersionIsFatalAndNoPanicIsSilent ==
    [][/\ (Dispatches("change") /\ IsOpen(ev'.uri) /\ ev'.version = None) =>
            /\ vfs' = vfs
            /\ log' = Append(log, Message("Error", "version null"))
            /\ pc' = "await_error_null"
            /\ status' = "running"
       /\ pc = "await_error_null" => (status' = "panicked" /\ vfs' = vfs /\ log' = log)
       /\ (status = "running" /\ status' = "panicked") =>
            (log # <<>> /\ LastLog.typ = "Error")]_vars

\* C7: an open, whatever the registry held, leaves the URI open at version
\* 0 with the text given, sends no log message and returns at once; a URI
\* never has more than one Document.
C7_OpenReplaces ==
    /\ [](\A u \in URIs : Len(vfs[u]) <= 1)
    /\ [][Dispatches("open") =>
            /\ vfs'[ev'.uri] = Some([version |-> 0, text |-> ev'.text])
            /\ \A u \in URIs \ {ev'.uri} : vfs'[u] = vfs[u]
            /\ log' = log
            /\ pc' = "idle" /\ status' = "running"]_vars
\* C7 witness: a document that had skipped a stale change (so it was open)
\* is open at version 0 with the text of the open dispatched last.
C7_Witness ==
    /\ ev.kind = "open" /\ ev.text = <<97, LF>>
    /\ vfs[ev.uri] = Some([version |-> 0, text |-> <<97, LF>>])
    /\ log # <<>> /\ LastLog.typ = "Info"

\* C8: a close leaves the URI closed, sends nothing, fails nowhere and
\* returns at once, and changes nothing when the URI was closed already; a
\* change for a URI that was closed and not opened since takes the path of
\* the unopened document.
C8_CloseAlwaysCloses ==
    [][/\ Dispatches("close") =>
            /\ vfs'[ev'.uri] = None
            /\ \A u \in URIs \ {ev'.uri} : vfs'[u] = vfs[u]
            /\ log' = log /\ reply' = None
            /\ pc' = "idle" /\ status' = "running"
            /\ ~IsOpen(ev'.uri) => (vfs' = vfs /\ did_shutdown' = did_shutdown)
       /\ (Dispatches("change") /\ shadow[ev'.uri] = None) =>
            /\ vfs' = vfs
            /\ log' = Append(log, Message("Warning", "unopened document"))
            /\ pc' = "await_warning"]_vars
\* C8 witness: a stale change was skipped (the document was open), and a
\* later change found the URI closed.
C8_Witness ==
    /\ ev.kind = "change" /\ ~IsOpen(ev.uri) /\ shadow[ev.uri] = None
    /\ log = <<Message("Info", "skipping didChange"), Message("Warning", "unopened document")>>

\* The lines of a text as lines() yields them: the last one, and their number.
FinalLine(text) ==
    IF text = <<>> THEN <<>>
    ELSE LET body == IF text[Len(text)] = LF THEN Prefix(text, Len(text) - 1) ELSE text
             k == IF \E i \in 1..Len(body) : body[i] = LF
                  THEN CHOOSE i \in 1..Len(body) :
                          body[i] = LF /\ \A j \in (i + 1)..Len(body) : body[j] # LF
                  ELSE 0
         IN  Suffix(body, k)
TotalLines(text) ==
    IF text = <<>> THEN 0
    ELSE CountLF(text) + (IF text[Len(text)] = LF THEN 0 ELSE 1)
Answered == ev.kind \in {"format", "format again"} /\ IsSome(reply)

\* C9: a formatting request for text the pretty printer gives back unchanged
\* answers Ok with no edit; so does the second request, for the text the
\* first one's edit left.
C9_CanonicalTextGivesNoEdits ==
    /\ (Answered /\ ev.pretty = Some(Ok(ev.text))) => reply = Some(Ok(Some(<<>>)))
    /\ (ev.kind = "format again" /\ status = "running") => reply = Some(Ok(Some(<<>>)))
\* C9 witness: the second request, for a text of two lines, answered with no
\* edit.
C9_Witness ==
    /\ ev.kind = "format again" /\ ev.text = <<97, LF, 97>>
    /\ reply = Some(Ok(Some(<<>>)))

\* C10: when the pretty printer gives a text other than the source, the
\* answer is one edit whose new text is that text and whose range runs from
\* (0, 0) to the end of that text: the line is its number of lines (or, read
\* as an index, that number less one) and the character the UTF-16 length of
\* its final line.  (Stated here for the texts that are not empty.)
C10_EditEndsAtEndOfFormattedText ==
    (/\ Answered /\ Unwrap(ev.pretty).ok
     /\ Unwrap(ev.pretty).value # ev.text /\ Unwrap(ev.pretty).value # <<>>) =>
        LET formatted == Unwrap(ev.pretty).value
            edits == Unwrap(Unwrap(reply).value)
        IN  /\ Unwrap(reply).ok
            /\ Len(edits) = 1
            /\ edits[1].new_text = formatted
            /\ edits[1].range.start = Position(0, 0)
            /\ edits[1].range.end.line \in {TotalLines(formatted), TotalLines(formatted) - 1}
            /\ edits[1].range.end.line >= 0
            /\ edits[1].range.end.character = Utf16Units(FinalLine(formatted))

\* The answer with one edit from (0, 0) whose new text is `formatted`.
IsOneEditWith(r, formatted) ==
    /\ IsSome(r) /\ Unwrap(r).ok /\ IsSome(Unwrap(r).value)
    /\ Len(Unwrap(Unwrap(r).value)) = 1
    /\ Unwrap(Unwrap(r).value)[1].new_text = formatted
    /\ Unwrap(Unwrap(r).value)[1].range.start = Position(0, 0)

\* C11: a formatting request leaves the registry as it is.  For an open URI
\* the answer is the one for the registry's text, whatever the file holds: no
\* edit when the pretty printer gives that text back, one edit with the
\* formatted text otherwise.  For a closed URI it is the one for the file's
\* text: one edit with the formatted text, no edit when the file's text is
\* given back, and the InternalError of the read when the file cannot be
\* read, the URI staying closed.
C11_FormattingReadsRegistryElseDisk ==
    [][Dispatches("format") =>
        LET uri == ev'.uri
            disk == Unwrap(ev'.disk)
            pretty == Unwrap(ev'.pretty)
        IN  /\ vfs' = vfs
            /\ (IsOpen(uri) /\ pretty.ok) =>
                  /\ disk.ok /\ disk.value # Doc(uri).text
                  /\ IF pretty.value = Doc(uri).text
                     THEN reply' = Some(Ok(Some(<<>>)))
                     ELSE IsOneEditWith(reply', pretty.value)
            /\ (~IsOpen(uri) /\ disk.ok /\ pretty.ok) =>
                  IF pretty.value = disk.value
                  THEN reply' = Some(Ok(Some(<<>>)))
                  ELSE IsOneEditWith(reply', pretty.value)
            /\ (~IsOpen(uri) /\ ~disk.ok) =>
                  /\ reply' = Some(Err([code |-> "InternalError", message |-> disk.error]))
                  /\ status' = "running"]_vars

\* C12: when the pretty printer reports a parse failure for the text fetched,
\* the request answers the ParseError whose message is the one the pretty
\* printer reported; the registry and the shutdown flag are as they were, the
\* server has not panicked and is ready for the next message.
C12_ParseFailureIsReported ==
    [][(/\ Dispatches("format")
        /\ IsOpen(ev'.uri) \/ Unwrap(ev'.disk).ok
        /\ ~Unwrap(ev'.pretty).ok) =>
            /\ reply' = Some(Err([code |-> "ParseError",
                                   message |-> Unwrap(ev'.pretty).error]))
            /\ vfs' = vfs /\ did_shutdown' = did_shutdown
            /\ status' = "running" /\ pc' = "idle"]_vars
\* C12 as amended: the message of the ParseError is the fixed text "Parse
\* error", whatever the pretty printer reported; the rest as above.
C12_ParseFailureIsReportedAsParseError ==
    [][(/\ Dispatches("format")
        /\ IsOpen(ev'.uri) \/ Unwrap(ev'.disk).ok
        /\ ~Unwrap(ev'.pretty).ok) =>
            /\ reply' = Some(Err([code |-> "ParseError", message |-> "Parse error"]))
            /\ vfs' = vfs /\ did_shutdown' = did_shutdown
            /\ status' = "running" /\ pc' = "idle"]_vars
\* C12 witness: the text of an open document did not parse, after a shutdown
\* request had set the flag; the document and the flag are still there.
C12_Witness ==
    /\ ev.kind = "format" /\ ev.pretty = Some(Err("syntax error"))
    /\ reply = Some(Err([code |-> "ParseError", message |-> "Parse error"]))
    /\ IsOpen(ev.uri) /\ Doc(ev.uri).text = <<97, LF>> /\ ev.text = <<97, LF>>
    /\ did_shutdown /\ Ready

\* C13: a shutdown request is taken whenever the driver is ready, whoever
\* holds the lock of the flag, and returns in the step that takes it, the
\* server running and ready.  When no guard is held on the flag it sets the
\* flag and answers Ok; when one is held it answers the InternalError and
\* leaves the flag as it was.  It leaves no guard behind, and the flag changes
\* in no step other than a shutdown request (nothing is retried later).
\* (A step in which the other owner takes or drops its guard is not a request.)
OwnGuards(h, who) == {g \in h : g[1] = who}
DispatchesShutdown ==
    /\ Dispatches("shutdown")
    /\ OwnGuards(holders', OtherOwner) = OwnGuards(holders, OtherOwner)
C13_ShutdownNeverBlocks ==
    /\ [](Ready => ENABLED Shutdown)
    /\ [][/\ DispatchesShutdown =>
               /\ pc' = "idle" /\ status' = "running"
               /\ holders' = holders /\ vfs' = vfs /\ log' = log
               /\ IF Guards(holders, "did_shutdown") = {}
                  THEN did_shutdown' = TRUE /\ reply' = Some(Ok("()"))
                  ELSE /\ did_shutdown' = did_shutdown
                       /\ reply' = Some(Err([code |-> "InternalError",
                              message |-> "Failed to lock did_shutdown_ref for writing"]))
          /\ did_shutdown' # did_shutdown => DispatchesShutdown]_vars
\* C13 witness: a shutdown request set the flag; a later one found a read
\* guard on the flag, was answered the error, and the flag is still set.
C13_Witness ==
    /\ Ready /\ ev.kind = "shutdown"
    /\ did_shutdown
    /\ holders = {<<OtherOwner, "did_shutdown", "read">>}
    /\ IsSome(reply) /\ ~Unwrap(reply).ok

\* C14: once the input stream has closed, command() has returned 0 when a
\* shutdown request was handled before and 1 when none was, whatever other
\* events were handled; as long as the stream is open, and when a handler
\* panicked, command() has returned nothing (never the clean signal).
C14_ExitSignal ==
    /\ status = "exited" => exit_code = Some(IF flag_hist.requests THEN 0 ELSE 1)
    /\ status # "exited" => exit_code = None
\* C14 witness: a shutdown request and, after it, a stale change that was
\* skipped; then the stream closed and the signal is clean.
C14_Witness ==
    /\ status = "exited" /\ exit_code = Some(0)
    /\ ev.kind = "change" /\ IsOpen(ev.uri)
    /\ log = <<Message("Info", "skipping didChange")>>
\* C14 witness of the other signal: events, no shutdown request, stream closed.
C14_WitnessAbnormal ==
    /\ status = "exited" /\ exit_code = Some(1)
    /\ ev.kind = "format" /\ IsOpen(ev.uri)

\* C15: the flag is false as long as no event has been handled; a step changes
\* it only from false to true and only when it hands a shutdown request to
\* its handler, and once true it stays true.  The flag is never read while
\* the server serves and has been read exactly once when the stream has
\* closed and command() has its exit code (a panic ends the process without
\* reading it).
C15_ShutdownFlag ==
    /\ [](ev.kind = "start" => ~did_shutdown)
    /\ [](flag_hist.reads = IF status = "exited" THEN 1 ELSE 0)
    /\ [][/\ did_shutdown' # did_shutdown =>
               (~did_shutdown /\ did_shutdown' /\ Dispatches("shutdown"))
          /\ did_shutdown => did_shutdown'
          /\ flag_hist'.reads # flag_hist.reads =>
               (status' = "exited" /\ exit_code' = Some(IF did_shutdown THEN 0 ELSE 1))]_vars
\* C15 witness: the flag was set, a close handled later left it set, and the
\* stream closed with one read of the flag.
C15_Witness ==
    /\ status = "exited" /\ did_shutdown /\ flag_hist.reads = 1
    /\ ev.kind = "close" /\ reply = None

\* C16: while a handler is suspended no other message is handed to a
\* handler: the only step is that handler's completion, which touches the
\* registry no more (its registry effects were complete when it suspended).
\* A step that hands over a message or changes the registry starts with no
\* handler in flight, and after it the registry holds, for every open URI,
\* the accepted changes applied in the order they were handed over.
C16_OneMessageAtATime ==
    [][/\ pc # "idle" =>
            (pc' = "idle" /\ ev' = ev /\ vfs' = vfs /\ shadow' = shadow /\ log' = log)
       /\ (ev' # ev \/ vfs' # vfs) =>
            /\ pc = "idle" /\ status = "running"
            /\ \A u \in URIs :
                  IsSome(vfs'[u]) =>
                      (IsSome(shadow'[u]) /\ Unwrap(vfs'[u]).text = Unwrap(shadow'[u]).text)]_vars
\* C16 witness: a change for the closed URI (suspended on its Warning, then
\* completed), an open, a stale change (suspended on its Info, then
\* completed) and a keystroke applied to the opened text.
C16_Witness ==
    /\ Ready /\ ev.kind = "change" /\ ev.version = Some(0)
    /\ Len(log) = 2 /\ log[1].typ = "Warning" /\ log[2].typ = "Info"
    /\ IsOpen(ev.uri) /\ Doc(ev.uri).text = <<97, 97>>

\* C18: the server stops running only in a step in which the input stream
\* closes (with no handler in flight, command() then has its exit code) or
\* in which a handler panics.  A shutdown request leaves it running and
\* ready, whatever it answers, and with the flag set an open still replaces
\* the document.  The handler of a stale change, of a change for an unopened
\* URI, and a formatting request that answers an error (parse failure, file
\* not read) leave it running.
C18_LoopEndsOnlyOnCloseOrPanic ==
    [][/\ (status = "running" /\ status' # "running") =>
            \/ /\ status' = "exited" /\ pc = "idle" /\ IsSome(exit_code')
               /\ ev' = ev /\ vfs' = vfs /\ did_shutdown' = did_shutdown
            \/ /\ status' = "panicked" /\ exit_code' = None
               /\ \/ pc \in {"await_error_null", "await_error_sync"}
                  \/ Dispatches("format") /\ reply' = None
       /\ Dispatches("shutdown") => (status' = "running" /\ pc' = "idle")
       /\ (did_shutdown /\ Dispatches("open")) =>
            (status' = "running" /\ vfs'[ev'.uri] = Some(NewDocument(ev'.text)))
       /\ pc \in {"await_info", "await_warning"} => (status' = "running" /\ pc' = "idle")
       /\ (Dispatches("format") /\ IsSome(reply')) => (status' = "running" /\ pc' = "idle")
       /\ status # "running" => UNCHANGED vars]_vars
\* C18 witness: with the flag set, a change was accepted and applied, and a
\* formatting request was answered a parse failure; the server is ready.
C18_Witness ==
    /\ Ready /\ did_shutdown
    /\ ev.kind = "format" /\ IsSome(reply) /\ ~Unwrap(reply).ok
    /\ IsOpen(ev.uri) /\ Doc(ev.uri).text = <<LF, 97>>
    /\ Unwrap(shadow[ev.uri]).last = Some(0)
    /\ log = <<Message("Info", "skipping didChange")>>

\* C20: whenever the pretty printer gives a text other than the source, the
\* empty text included, the end position of the edit is computed without
\* underflow: the request does not panic, and the line and the character of
\* the end position are not below zero.
C20_EndPositionNeverUnderflows ==
    (/\ ev.kind \in {"format", "format again"}
     /\ Unwrap(ev.pretty).ok /\ Unwrap(ev.pretty).value # ev.text) =>
        /\ status = "running"
        /\ IsOneEditWith(reply, Unwrap(ev.pretty).value)
        /\ Unwrap(Unwrap(reply).value)[1].range.end.line >= 0
        /\ Unwrap(Unwrap(reply).value)[1].range.end.character >= 0


\* C17: a handler that is in flight but not on the thread (suspended on an
\* await) owns no guard of the Registry or of the ShutdownFlag, so no guard
\* is held while nothing runs, every guard belongs to the handler on the
\* thread, and a handler that reaches a lock acquisition finds the lock free.
C17_NoGuardAcrossSuspension ==
    [](/\ \A t \in TaskIds :
              (tasks[t] # None /\ running # t) =>
                  /\ tasks[t].at \in AwaitPoints
                  /\ OwnGuards(holders, t) = {}
       /\ running = 0 => holders = {}
       /\ \A g \in holders : g[1] = running
       /\ \A t \in TaskIds :
              (running = t /\ tasks[t] # None /\ tasks[t].at \in {"start", "compared"}) =>
                  holders = {})
C17_Witness ==
    \E t, u \in TaskIds :
        /\ t # u
        /\ tasks[t] # None /\ tasks[t].at \in AwaitPoints
        /\ running = u /\ tasks[u] # None
        /\ OwnGuards(holders, u) # {}

\* C19: from the version read of a did_change to its modify_document no other
\* handler moves, so the Registry entry of the URI is the one whose version
\* was read, and the edits are applied to that Document, whose version equals
\* the client version.
BetweenReadAndModify(t) ==
    tasks[t] # None /\ tasks[t].kind = "change" /\ tasks[t].at \in {"compared", "modifying"}
C19_ReadAndModifyAreNotInterleaved ==
    /\ [](\A t \in TaskIds :
              BetweenReadAndModify(t) =>
                  /\ running = t
                  /\ vfs[tasks[t].uri] = tasks[t].seen)
    /\ [][\A t \in TaskIds :
              /\ BetweenReadAndModify(t) =>
                    \A u \in TaskIds \ {t} : tasks'[u] = tasks[u]
              /\ (BetweenReadAndModify(t) /\ vfs' # vfs) =>
                    /\ tasks[t].at = "modifying" /\ tasks'[t] = None
                    /\ IsSome(tasks[t].seen)
                    /\ tasks[t].version = Some(Unwrap(tasks[t].seen).version)
                    /\ vfs' = [vfs EXCEPT ![tasks[t].uri] =
                                  Some(apply_content_changes(Unwrap(tasks[t].seen),
                                                             tasks[t].changes))]]_vars
C19_Witness ==
    \E t, u \in TaskIds :
        /\ t # u
        /\ tasks[t] # None /\ tasks[t].kind = "change" /\ tasks[t].at = "modifying"
        /\ IsSome(tasks[t].seen)
        /\ tasks[t].changes # <<>>
        /\ tasks[u] # None /\ tasks[u].kind = "change" /\ tasks[u].at = "await_warning"

====
